---- MODULE Spec2Model ----
(***************************************************************************)
(* A model of the iex runtime protocol (src/src/lib.rs): the thread-local  *)
(* EXCEPTION slot, the two Outcome shapes (Result and IexResult), the      *)
(* forwarding operator _iex_forward, the ExceptionMapper guard and the     *)
(* into_result boundary.  Each thread runs one user program; the machine   *)
(* is a control register (ctl) plus a stack of frames (stack), so that     *)
(* unwinding, catch_unwind and Drop are explicit steps.                    *)
(***************************************************************************)
EXTENDS Integers, Sequences, FiniteSets, TLC

VARIABLES prog, ctl, stack, slot, guards, log

vars == <<prog, ctl, stack, slot, guards, log>>

(***************************************************************************)
(* Bounds of the model.                                                    *)
(***************************************************************************)
\* success and failure values written by user code are 0..MaxVal
MaxVal == 1
\* a program holds at most MaxSize operations (#[iex] calls, map_err calls,
\* and the fallible operations run by destructors and conversion closures)
MaxSize == 3
\* the threads of the concurrent runs are 1..MaxThreads
MaxThreads == 2

Vals == 0..MaxVal

(***************************************************************************)
(* Error types.  A type is its identity plus a lifetime parameter;         *)
(* typeid::of erases the lifetime.                                         *)
(***************************************************************************)
TyE == [id |-> "E", lt |-> "static"]
TyEa == [id |-> "E", lt |-> "a"]
TyF == [id |-> "F", lt |-> "static"]
TyG == [id |-> "G", lt |-> "static"]
Types == {TyE, TyEa, TyF, TyG}

typeid_of(T) == T.id

(***************************************************************************)
(* Conversion functions (FnOnce(T) -> U).  A conversion is affine on the   *)
(* payload, x |-> mul * x + add, and may first run a complete fallible     *)
(* operation of its own (inner: <<>> or <<outcome>>, resolved with         *)
(* into_result and discarded).                                             *)
(***************************************************************************)
Conv(T, U, m, a, in) == [from |-> T, to |-> U, mul |-> m, add |-> a, inner |-> in]

Apply(f, x) == f.mul * x + f.add

\* <R::Error as Into<E>>::into : the From/Into impls the user crate declares
\* (E -> F, F -> G) and the blanket impl Into<T> for T.
Into(T, U) ==
  IF typeid_of(T) = typeid_of(U) THEN Conv(T, U, 1, 0, <<>>)
  ELSE IF typeid_of(U) = "F" THEN Conv(T, U, 2, 1, <<>>)
  ELSE Conv(T, U, 3, 0, <<>>)

\* the error types of the #[iex] functions that can forward with `?` an
\* outcome of error type T.  The by-value impl takes T itself and, Marker
\* being covariant, every type T is a subtype of (E<'static> forwards an
\* outcome of error E<'a>); the by-ref impl takes the types with
\* T: Into<_>, and there is no E<'static>: Into<E<'a>>.
Targets(T) ==
  CASE T = TyE -> {TyE, TyF}
    [] T = TyEa -> {TyEa, TyE, TyF}
    [] T = TyF -> {TyF, TyG}
    [] OTHER -> {TyG}

\* the result types of the closures user code passes to map_err on an outcome
\* of error type T
Codomains(T) ==
  CASE T = TyE -> {TyE, TyF}
    [] T = TyEa -> {TyF}
    [] T = TyF -> {TyG}
    [] OTHER -> {TyG}

(***************************************************************************)
(* Outcome values and user programs.                                       *)
(***************************************************************************)
\* Result<T, E>
ResultV(ok, v, E) == [k |-> "Result", ok |-> ok, val |-> v, E |-> E]

\* imp::IexResult<T, E, Func>
IexResultV(func, E) == [k |-> "IexResult", func |-> func, E |-> E]

\* the closure of an #[iex] function whose body is
\*   let _local = ...;  Ok(<try>?)
\* drop is <<>> or <<o>>: a local whose destructor runs `let _ = o.into_result();`
BodyFn(drop, try, E) ==
  [fn |-> "body", drop |-> drop, try |-> try, E |-> E, generic |-> FALSE]

\* the same body in a function generic over the two error types
\* (fn<T, U> with T: Into<U>), instantiated at T = U = E
GenericFn(drop, try, E) ==
  [fn |-> "body", drop |-> drop, try |-> try, E |-> E, generic |-> TRUE]

\* the closure of an #[iex] function whose body panics (a foreign panic)
PanicFn == [fn |-> "panic"]

\* the closure IexResult::map_err builds
MapErrFn(self, map) == [fn |-> "map_err", self |-> self, map |-> map]

\* user expressions: an outcome literal / #[iex] call, or <of>.map_err(map)
Lit(o) == [x |-> "lit", o |-> o, E |-> o.E]
MapErrX(x, f) == [x |-> "map_err", of |-> x, map |-> f, E |-> f.to]

None == [some |-> FALSE, ty |-> "-", v |-> 0]
Some(T, v) == [some |-> TRUE, ty |-> typeid_of(T), v |-> v]

(***************************************************************************)
(* The Exception cell (mod exception): one erased, optional payload.       *)
(***************************************************************************)
\* Exception::write::<T>(value): stores the payload at type T, or clears
ExceptionWrite(T, value) == IF value.some THEN Some(T, value.v) ELSE None

\* Exception::read::<T>(): removes the payload and returns it.  The cell is
\* erased: reading a payload stored at another type reinterprets its bytes,
\* so any value of T may come out.
ExceptionRead(cell, T) ==
  IF ~cell.some THEN {None}
  ELSE IF cell.ty = typeid_of(T) THEN {cell}
  ELSE {Some(T, w) : w \in Vals \cup {cell.v}}

(***************************************************************************)
(* The programs a thread may run.                                          *)
(***************************************************************************)
\* the fallible operations a destructor or a conversion closure runs
Sides == {IexResultV(BodyFn(<<>>, Lit(ResultV(ok, 7, TyF)), TyF), TyF) : ok \in BOOLEAN}

\* the closures user code passes to map_err on an outcome of error type T
UserMaps(T, in) == {Conv(T, U, 5, 2, in) : U \in Codomains(T)}

\* what a plain Result value can be forwarded as: itself, or the value
\* coerced to a supertype (Result<T, E<'static>> to Result<T, E<'a>>)
Coercions(x) ==
  IF x.x = "lit" /\ x.o.k = "Result" /\ x.E = TyE
  THEN {x, Lit([x.o EXCEPT !.E = TyEa])}
  ELSE {x}

\* the #[iex] functions with local(s) drop whose body forwards x
Bodies(drop, x) ==
  UNION {{Lit(IexResultV(BodyFn(drop, y, U), U)) : U \in Targets(y.E)} : y \in Coercions(x)}

\* the generic #[iex] function, instantiated at E<'static>, forwarding x
Generics(x) ==
  IF x.E = TyE THEN {Lit(IexResultV(GenericFn(<<>>, x, TyE), TyE))} ELSE {}

RECURSIVE Exprs(_)
Exprs(n) ==
  IF n = 0 THEN {Lit(ResultV(ok, v, TyE)) : ok \in BOOLEAN, v \in Vals}
  ELSE LET prev == Exprs(n - 1)
           prev2 == IF n >= 2 THEN Exprs(n - 2) ELSE {}
       IN prev
          \cup {Lit(IexResultV(PanicFn, TyE))}
          \cup UNION {Bodies(<<>>, x) : x \in prev}
          \cup UNION {Generics(x) : x \in prev}
          \cup UNION {{MapErrX(x, f) : f \in UserMaps(x.E, <<>>)} : x \in prev}
          \cup UNION {UNION {Bodies(<<sd>>, x) : sd \in Sides} : x \in prev2}
          \cup UNION {UNION {{MapErrX(x, f) : f \in UserMaps(x.E, <<sd>>)} :
                         sd \in Sides} : x \in prev2}

\* a thread resolves its expression with into_result, or forces it with
\* get_value_or_panic under no boundary, or ("compare") resolves <of> and
\* then <of>.map_err(map) and returns both results
Programs ==
  {[top |-> tp, x |-> x] : tp \in {"into_result", "get_value_or_panic"},
                           x \in Exprs(MaxSize)}
  \cup {[top |-> "compare", x |-> x] : x \in {y \in Exprs(MaxSize) : y.x = "map_err"}}

\* the programs of the concurrent runs.  Every value thread t produces is
\* its own: it fails with t, and the operations its destructors and closures
\* run fail with 10 + t.
ThreadSide(t, ok) == IexResultV(BodyFn(<<>>, Lit(ResultV(ok, 10 + t, TyF)), TyF), TyF)

ThreadPrograms(t) ==
  {[top |-> "compare",
    x |-> MapErrX(Lit(ResultV(FALSE, t, TyE)),
                  Conv(TyE, TyF, 5, 2, <<ThreadSide(t, FALSE)>>))],
   [top |-> "into_result",
    x |-> MapErrX(Lit(IexResultV(BodyFn(<<>>, Lit(ResultV(FALSE, t, TyE)), TyF), TyF)),
                  Conv(TyF, TyG, 5, 2, <<>>))],
   [top |-> "compare",
    x |-> MapErrX(Lit(IexResultV(PanicFn, TyE)), Conv(TyE, TyF, 5, 2, <<>>))],
   [top |-> "get_value_or_panic",
    x |-> Lit(IexResultV(BodyFn(<<ThreadSide(t, TRUE)>>, Lit(ResultV(TRUE, t, TyE)), TyF),
                         TyF))]}

InitStack(p) ==
  IF p.top = "compare"
  THEN <<[fr |-> "into_result"], [fr |-> "second", x |-> p.x]>>
  ELSE <<[fr |-> p.top]>>

(***************************************************************************)
(* Machine state.                                                          *)
(*   prog[t]   the program of thread t                                     *)
(*   ctl[t]    what thread t does next                                     *)
(*   stack[t]  its frames, innermost first                                 *)
(*   slot[t]   its EXCEPTION cell                                          *)
(*   guards[t] the state of every ExceptionMapper it has built             *)
(*   log[t]    the protocol events it has performed, oldest first          *)
(***************************************************************************)
Eval(x) == [c |-> "eval", x |-> x]
Value(v) == [c |-> "value", v |-> v]
Force(o) == [c |-> "force", o |-> o]
Invoke(func) == [c |-> "invoke", func |-> func]
Raise == [c |-> "resume_unwind"]
Panic(p) == [c |-> "panic", payload |-> p]
CallFn(f, arg) == [c |-> "call", f |-> f, arg |-> arg]
Exit(how, v) == [c |-> "exit", how |-> how, v |-> v]

Threads == DOMAIN ctl

At(t, c) == ctl[t].c = c
TopIs(t, fr) == stack[t] # <<>> /\ Head(stack[t]).fr = fr
Top(t) == Head(stack[t])
Push(t, frs) == frs \o stack[t]
Pop(t) == Tail(stack[t])

\* a variant with one cell for the whole process
Step_shared(t, c, st, sl, g, evs) ==
  /\ ctl' = [ctl EXCEPT ![t] = c]
  /\ stack' = [stack EXCEPT ![t] = st]
  /\ slot' = [u \in Threads |-> sl]
  /\ guards' = [guards EXCEPT ![t] = g]
  /\ log' = [log EXCEPT ![t] = @ \o evs]
  /\ UNCHANGED prog

Step(t, c, st, sl, g, evs) ==
  /\ ctl' = [ctl EXCEPT ![t] = c]
  /\ stack' = [stack EXCEPT ![t] = st]
  /\ slot' = [slot EXCEPT ![t] = sl]
  /\ guards' = [guards EXCEPT ![t] = g]
  /\ log' = [log EXCEPT ![t] = @ \o evs]
  /\ UNCHANGED prog

InitOn(T, P) ==
  /\ prog \in [T -> P]
  /\ ctl = [t \in T |-> Eval(IF prog[t].top = "compare" THEN prog[t].x.of ELSE prog[t].x)]
  /\ stack = [t \in T |-> InitStack(prog[t])]
  /\ slot = [t \in T |-> None]
  /\ guards = [t \in T |-> <<>>]
  /\ log = [t \in T |-> <<>>]

Init == InitOn({1}, Programs)

\* MaxThreads threads, each running one of its own programs
InitThreads ==
  /\ InitOn(1..MaxThreads, UNION {ThreadPrograms(t) : t \in 1..MaxThreads})
  /\ \A t \in 1..MaxThreads : prog[t] \in ThreadPrograms(t)

Ev(e) == <<[ev |-> e]>>

(***************************************************************************)
(* User code: evaluating an expression to an outcome value.                *)
(***************************************************************************)
\* an outcome literal, or the call of an #[iex] function (builds the closure)
user_lit(t) ==
  /\ At(t, "eval") /\ ctl[t].x.x = "lit"
  /\ Step(t, Value(ctl[t].x.o), stack[t], slot[t], guards[t], <<>>)

\* <of>.map_err(map): evaluate <of>, then call map_err on it
user_map_err(t) ==
  /\ At(t, "eval") /\ ctl[t].x.x = "map_err"
  /\ Step(t, Eval(ctl[t].x.of), Push(t, <<[fr |-> "map_err", map |-> ctl[t].x.map]>>),
          slot[t], guards[t], <<>>)

\* the thread body forces its outcome under no boundary
user_get_value_or_panic(t) ==
  /\ At(t, "value") /\ TopIs(t, "get_value_or_panic")
  /\ Step(t, Force(ctl[t].v), Pop(t), slot[t], guards[t], <<>>)

\* "compare": the first result is kept, the second expression is resolved
user_second(t) ==
  /\ At(t, "value") /\ TopIs(t, "second")
  /\ Step(t, Eval(Top(t).x),
          <<[fr |-> "into_result"], [fr |-> "pair", first |-> ctl[t].v]>> \o Pop(t),
          slot[t], guards[t], <<[ev |-> "second", first |-> ctl[t].v]>>)

user_pair(t) ==
  /\ At(t, "value") /\ TopIs(t, "pair")
  /\ Step(t, Value([first |-> Top(t).first, second |-> ctl[t].v]), Pop(t),
          slot[t], guards[t], <<>>)

\* a panic leaves the thread body of "compare"
user_unwind(t) ==
  /\ At(t, "panic") /\ (TopIs(t, "second") \/ TopIs(t, "pair"))
  /\ Step(t, ctl[t], Pop(t), slot[t], guards[t], <<>>)

\* the closure of an #[iex] function runs: its local is live, its body
\* forwards <try> with `?` at the function's error type
invoke_body(t) ==
  /\ At(t, "invoke") /\ ctl[t].func.fn = "body"
  /\ LET f == ctl[t].func
         loc == IF f.drop = <<>> THEN <<>> ELSE <<[fr |-> "local", o |-> f.drop[1]]>>
     IN Step(t, Eval(f.try),
             Push(t, <<[fr |-> "_iex_forward", E |-> f.E, generic |-> f.generic]>> \o loc),
             slot[t], guards[t], <<>>)

\* the closure of an #[iex] function panics with a payload that is not IexPanic
invoke_panic(t) ==
  /\ At(t, "invoke") /\ ctl[t].func.fn = "panic"
  /\ Step(t, Panic("foreign"), stack[t], slot[t], guards[t], Ev("panic"))

\* a scope with a local is left, by return or by unwind: its destructor runs
\* `let _ = o.into_result();`
local_exit(t) ==
  /\ At(t, "value") \/ At(t, "panic")
  /\ TopIs(t, "local")
  /\ Step(t, Eval(Lit(Top(t).o)),
          <<[fr |-> "into_result"], [fr |-> "local_drop", resume |-> ctl[t]]>> \o Pop(t),
          slot[t], guards[t], <<[ev |-> "local_drop", unwinding |-> At(t, "panic")]>>)

\* the destructor is done: the return or the unwind goes on
local_drop_done(t) ==
  /\ At(t, "value") /\ TopIs(t, "local_drop")
  /\ Step(t, Top(t).resume, Pop(t), slot[t], guards[t], <<>>)

\* the thread's body has returned, or a panic has left it
thread_exit(t) ==
  /\ At(t, "value") \/ At(t, "panic")
  /\ stack[t] = <<>>
  /\ Step(t, IF At(t, "value") THEN Exit("returned", ctl[t].v)
                               ELSE Exit("panicked", ctl[t].payload),
          stack[t], slot[t], guards[t], <<>>)

(***************************************************************************)
(* impl Outcome for Result<T, E>                                           *)
(***************************************************************************)
\* the depth of the innermost live catch_unwind of a stack, 0 if there is none
Boundary(st) ==
  LET live == {i \in 1..Len(st) : st[i].fr = "catch_unwind"}
  IN IF live = {} THEN 0
     ELSE st[CHOOSE i \in live : \A j \in live : i <= j].depth

\* a variant that raises the signal without storing the payload first
Result_get_value_or_panic_unwritten(t) ==
  /\ At(t, "force") /\ ctl[t].o.k = "Result"
  /\ LET o == ctl[t].o
     IN IF o.ok
        THEN Step(t, Value(o.val), stack[t], slot[t], guards[t], <<>>)
        ELSE Step(t, Raise, stack[t], slot[t], guards[t], <<>>)

\* a variant that raises the signal first and stores the payload afterwards
Result_get_value_or_panic_late(t) ==
  /\ At(t, "force") /\ ctl[t].o.k = "Result"
  /\ LET o == ctl[t].o
     IN IF o.ok
        THEN Step(t, Value(o.val), stack[t], slot[t], guards[t], <<>>)
        ELSE Step(t, Panic("IexPanic"), stack[t], ExceptionWrite(o.E, Some(o.E, o.val)),
                  guards[t],
                  <<[ev |-> "raise", boundary |-> Boundary(stack[t])],
                    [ev |-> "write", val |-> o.val, ty |-> typeid_of(o.E), at |-> o.E,
                     depth |-> Len(stack[t])]>>)

Result_get_value_or_panic(t) ==
  /\ At(t, "force") /\ ctl[t].o.k = "Result"
  /\ LET o == ctl[t].o
     IN IF o.ok
        THEN Step(t, Value(o.val), stack[t], slot[t], guards[t], <<>>)
        ELSE Step(t, Raise, stack[t], ExceptionWrite(o.E, Some(o.E, o.val)), guards[t],
                  <<[ev |-> "write", val |-> o.val, ty |-> typeid_of(o.E), at |-> o.E,
                     depth |-> Len(stack[t])]>>)

\* std::panic::resume_unwind(Box::new(IexPanic))
resume_unwind(t) ==
  /\ At(t, "resume_unwind")
  /\ Step(t, Panic("IexPanic"), stack[t], slot[t], guards[t],
          <<[ev |-> "raise", boundary |-> Boundary(stack[t])]>>)

\* a variant that maps the success value as well
Result_map_err_both(t) ==
  /\ At(t, "value") /\ TopIs(t, "map_err") /\ ctl[t].v.k = "Result"
  /\ Step(t, CallFn(Top(t).map, ctl[t].v.val),
          <<[fr |-> "Result::map_err", F |-> Top(t).map.to]>> \o Pop(t),
          slot[t], guards[t], <<>>)

\* Result::map_err(self, map): eager
Result_map_err(t) ==
  /\ At(t, "value") /\ TopIs(t, "map_err") /\ ctl[t].v.k = "Result"
  /\ LET o == ctl[t].v
         map == Top(t).map
     IN IF o.ok
        THEN Step(t, Value(ResultV(TRUE, o.val, map.to)), Pop(t), slot[t], guards[t], <<>>)
        ELSE Step(t, CallFn(map, o.val),
                  <<[fr |-> "Result::map_err", F |-> map.to]>> \o Pop(t),
                  slot[t], guards[t], <<>>)

Result_map_err_return(t) ==
  /\ At(t, "value") /\ TopIs(t, "Result::map_err")
  /\ Step(t, Value(ResultV(FALSE, ctl[t].v, Top(t).F)), Pop(t), slot[t], guards[t], <<>>)

\* a variant that treats every Result as a failure to be fetched from the cell
Result_into_result_via_cell(t) ==
  /\ At(t, "value") /\ TopIs(t, "into_result") /\ ctl[t].v.k = "Result"
  /\ Step(t, Value(ResultV(slot[t].some, slot[t].v, ctl[t].v.E)), Pop(t), None,
          guards[t], <<>>)

Result_into_result(t) ==
  /\ At(t, "value") /\ TopIs(t, "into_result") /\ ctl[t].v.k = "Result"
  /\ Step(t, Value(ctl[t].v), Pop(t), slot[t], guards[t], <<>>)

(***************************************************************************)
(* Conversion closures.                                                    *)
(***************************************************************************)
call_pure(t) ==
  /\ At(t, "call") /\ ctl[t].f.inner = <<>>
  /\ Step(t, Value(Apply(ctl[t].f, ctl[t].arg)), stack[t], slot[t], guards[t],
          <<[ev |-> "call", f |-> ctl[t].f, arg |-> ctl[t].arg]>>)

\* the closure first runs `let _ = inner.into_result();`
call_nested(t) ==
  /\ At(t, "call") /\ ctl[t].f.inner # <<>>
  /\ Step(t, Eval(Lit(ctl[t].f.inner[1])),
          Push(t, <<[fr |-> "into_result"],
                    [fr |-> "closure", f |-> ctl[t].f, arg |-> ctl[t].arg]>>),
          slot[t], guards[t],
          <<[ev |-> "call", f |-> ctl[t].f, arg |-> ctl[t].arg]>>)

closure_return(t) ==
  /\ At(t, "value") /\ TopIs(t, "closure")
  /\ Step(t, Value(Apply(Top(t).f, Top(t).arg)), Pop(t), slot[t], guards[t], <<>>)

(***************************************************************************)
(* ExceptionMapper: the conversion guard.                                  *)
(***************************************************************************)
\* ExceptionMapper::new(f): a guard frame, Armed
NewMapper(t, f) == [fr |-> "ExceptionMapper", map |-> f, id |-> Len(guards[t]) + 1]

\* a variant without mem::forget: the guard is dropped at the end of swallow
swallow_and_drop(t) ==
  /\ At(t, "value") /\ TopIs(t, "ExceptionMapper")
  /\ Step(t, ctl[t], Pop(t), ExceptionWrite(Top(t).map.to, None),
          [guards[t] EXCEPT ![Top(t).id] = "Fired"],
          <<[ev |-> "swallow", id |-> Top(t).id],
            [ev |-> "drop", id |-> Top(t).id, got |-> None, cell |-> slot[t],
             T |-> typeid_of(Top(t).map.from), at |-> Top(t).map.from,
             payload |-> "-"]>>)

\* ExceptionMapper::swallow: the forced outcome returned a value
swallow(t) ==
  /\ At(t, "value") /\ TopIs(t, "ExceptionMapper")
  /\ Step(t, ctl[t], Pop(t), slot[t], [guards[t] EXCEPT ![Top(t).id] = "Disarmed"],
          <<[ev |-> "swallow", id |-> Top(t).id]>>)

\* a variant that calls the closure on a default payload when the cell is
\* empty
drop_on_default(t) ==
  /\ At(t, "panic") /\ TopIs(t, "ExceptionMapper")
  /\ \E r \in ExceptionRead(slot[t], Top(t).map.from) :
       LET g == [guards[t] EXCEPT ![Top(t).id] = "Fired"]
           e == <<[ev |-> "drop", id |-> Top(t).id, got |-> r, cell |-> slot[t],
                   T |-> typeid_of(Top(t).map.from), at |-> Top(t).map.from,
                   payload |-> ctl[t].payload]>>
       IN Step(t, CallFn(Top(t).map, r.v),
               <<[fr |-> "drop", U |-> Top(t).map.to, payload |-> ctl[t].payload,
                  id |-> Top(t).id]>> \o Pop(t),
               None, g, e)

\* Drop for ExceptionMapper, run by an unwind: read::<T>(), then map.  On an
\* empty cell the closure is dropped uncalled and None is written back.
drop(t) ==
  /\ At(t, "panic") /\ TopIs(t, "ExceptionMapper")
  /\ \E r \in ExceptionRead(slot[t], Top(t).map.from) :
       LET g == [guards[t] EXCEPT ![Top(t).id] = "Fired"]
           e == <<[ev |-> "drop", id |-> Top(t).id, got |-> r, cell |-> slot[t],
                   T |-> typeid_of(Top(t).map.from), at |-> Top(t).map.from,
                   payload |-> ctl[t].payload]>>
       IN IF r.some
          THEN Step(t, CallFn(Top(t).map, r.v),
                    <<[fr |-> "drop", U |-> Top(t).map.to, payload |-> ctl[t].payload,
                       id |-> Top(t).id]>> \o Pop(t),
                    None, g, e)
          ELSE Step(t, ctl[t], Pop(t), ExceptionWrite(Top(t).map.to, None), g, e)

\* a variant that writes the closure's result only into a non-empty cell,
\* as if the payload had stayed in the cell while the closure ran
drop_write_in_place(t) ==
  /\ At(t, "value") /\ TopIs(t, "drop")
  /\ Step(t, Panic(Top(t).payload), Pop(t),
          IF slot[t].some THEN Some(Top(t).U, ctl[t].v) ELSE slot[t], guards[t],
          <<[ev |-> "mapped", id |-> Top(t).id, val |-> ctl[t].v, at |-> Top(t).U]>>)

\* ... then write::<U>() of the closure's result; the unwind goes on
drop_write(t) ==
  /\ At(t, "value") /\ TopIs(t, "drop")
  /\ Step(t, Panic(Top(t).payload), Pop(t),
          ExceptionWrite(Top(t).U, Some(Top(t).U, ctl[t].v)), guards[t],
          <<[ev |-> "mapped", id |-> Top(t).id, val |-> ctl[t].v, at |-> Top(t).U]>>)

(***************************************************************************)
(* imp::_IexForward: the `?` of an #[iex] function.                        *)
(***************************************************************************)
\* autoref specialization: the by-value impl is found first, when Marker<E>
\* matches Marker<R::Error>.  The match ignores lifetimes, and in a generic
\* function two type parameters never match.
Specialized(t) ==
  ~Top(t).generic /\ typeid_of(ctl[t].v.E) = typeid_of(Top(t).E)

\* impl for (Marker<R::Error>, ManuallyDrop<R>): forces at R::Error
forward_by_value(t) ==
  /\ At(t, "value") /\ TopIs(t, "_iex_forward") /\ Specialized(t)
  /\ Step(t, Force(ctl[t].v), Pop(t), slot[t], guards[t],
          <<[ev |-> "forward", path |-> "identity", from |-> ctl[t].v.E, to |-> Top(t).E,
             by |-> "value"]>>)

\* a variant that converts in the wrong direction
forward_by_ref_reversed(t) ==
  /\ At(t, "value") /\ TopIs(t, "_iex_forward") /\ ~Specialized(t)
  /\ IF typeid_of(Top(t).E) = typeid_of(ctl[t].v.E)
     THEN Step(t, Force(ctl[t].v), Pop(t), slot[t], guards[t],
               <<[ev |-> "forward", path |-> "identity", from |-> ctl[t].v.E, to |-> Top(t).E,
                  by |-> "ref"]>>)
     ELSE LET m == NewMapper(t, Into(Top(t).E, ctl[t].v.E))
          IN Step(t, Force(ctl[t].v), <<m>> \o Pop(t), slot[t],
                  Append(guards[t], "Armed"),
                  <<[ev |-> "forward", path |-> "converting", from |-> ctl[t].v.E,
                     to |-> Top(t).E, by |-> "ref"],
                    [ev |-> "new", id |-> m.id, map |-> m.map, via |-> "_iex_forward"]>>)

\* a variant without the typeid comparison: always a guard around Into::into
forward_by_ref_unchecked(t) ==
  /\ At(t, "value") /\ TopIs(t, "_iex_forward") /\ ~Specialized(t)
  /\ LET m == NewMapper(t, Into(ctl[t].v.E, Top(t).E))
     IN Step(t, Force(ctl[t].v), <<m>> \o Pop(t), slot[t],
             Append(guards[t], "Armed"),
             <<[ev |-> "forward", path |-> "converting", from |-> ctl[t].v.E,
                to |-> Top(t).E, by |-> "ref"],
               [ev |-> "new", id |-> m.id, map |-> m.map, via |-> "_iex_forward"]>>)

\* impl for &mut (Marker<E>, ManuallyDrop<R>)
forward_by_ref(t) ==
  /\ At(t, "value") /\ TopIs(t, "_iex_forward") /\ ~Specialized(t)
  /\ IF typeid_of(Top(t).E) = typeid_of(ctl[t].v.E)
     THEN Step(t, Force(ctl[t].v), Pop(t), slot[t], guards[t],
               <<[ev |-> "forward", path |-> "identity", from |-> ctl[t].v.E, to |-> Top(t).E,
                  by |-> "ref"]>>)
     ELSE LET m == NewMapper(t, Into(ctl[t].v.E, Top(t).E))
          IN Step(t, Force(ctl[t].v), <<m>> \o Pop(t), slot[t],
                  Append(guards[t], "Armed"),
                  <<[ev |-> "forward", path |-> "converting", from |-> ctl[t].v.E,
                     to |-> Top(t).E, by |-> "ref"],
                    [ev |-> "new", id |-> m.id, map |-> m.map, via |-> "_iex_forward"]>>)

(***************************************************************************)
(* impl Outcome for IexResult<T, E, Func>                                  *)
(***************************************************************************)
IexResult_get_value_or_panic(t) ==
  /\ At(t, "force") /\ ctl[t].o.k = "IexResult"
  /\ Step(t, Invoke(ctl[t].o.func), stack[t], slot[t], guards[t], <<>>)

\* map_err: wraps self in a new closure; nothing runs yet
IexResult_map_err(t) ==
  /\ At(t, "value") /\ TopIs(t, "map_err") /\ ctl[t].v.k = "IexResult"
  /\ Step(t, Value(IexResultV(MapErrFn(ctl[t].v, Top(t).map), Top(t).map.to)), Pop(t),
          slot[t], guards[t], <<>>)

\* a variant whose closure forces self under no guard
invoke_map_err_unguarded(t) ==
  /\ At(t, "invoke") /\ ctl[t].func.fn = "map_err"
  /\ Step(t, Force(ctl[t].func.self), stack[t], slot[t], guards[t], <<>>)

\* the closure map_err built: a guard around the forcing of self
invoke_map_err(t) ==
  /\ At(t, "invoke") /\ ctl[t].func.fn = "map_err"
  /\ LET m == NewMapper(t, ctl[t].func.map)
     IN Step(t, Force(ctl[t].func.self), Push(t, <<m>>), slot[t],
             Append(guards[t], "Armed"),
             <<[ev |-> "new", id |-> m.id, map |-> m.map, via |-> "map_err"]>>)

\* a variant that starts forcing without clearing the cell
IexResult_into_result_uncleared(t) ==
  /\ At(t, "value") /\ TopIs(t, "into_result") /\ ctl[t].v.k = "IexResult"
  /\ Step(t, Invoke(ctl[t].v.func),
          <<[fr |-> "catch_unwind", E |-> ctl[t].v.E, depth |-> Len(stack[t])]>> \o Pop(t),
          slot[t], guards[t],
          <<[ev |-> "clear", depth |-> Len(stack[t]), cell |-> slot[t]]>>)

\* into_result: clear the cell, then force self under catch_unwind
IexResult_into_result(t) ==
  /\ At(t, "value") /\ TopIs(t, "into_result") /\ ctl[t].v.k = "IexResult"
  /\ Step(t, Invoke(ctl[t].v.func),
          <<[fr |-> "catch_unwind", E |-> ctl[t].v.E, depth |-> Len(stack[t])]>> \o Pop(t),
          ExceptionWrite(ctl[t].v.E, None), guards[t],
          <<[ev |-> "clear", depth |-> Len(stack[t]), cell |-> slot[t]]>>)

\* catch_unwind returned Ok(value)
catch_unwind_ok(t) ==
  /\ At(t, "value") /\ TopIs(t, "catch_unwind")
  /\ Step(t, Value(ResultV(TRUE, ctl[t].v, Top(t).E)), Pop(t), slot[t], guards[t], <<>>)

\* a variant that passes the signal on when it finds the cell empty
catch_IexPanic_or_pass(t) ==
  /\ At(t, "panic") /\ TopIs(t, "catch_unwind") /\ ctl[t].payload = "IexPanic"
  /\ \E r \in ExceptionRead(slot[t], Top(t).E) :
       IF r.some
       THEN Step(t, Value(ResultV(FALSE, r.v, Top(t).E)), Pop(t), None, guards[t],
                 <<[ev |-> "catch", payload |-> "IexPanic", depth |-> Top(t).depth],
                   [ev |-> "read", got |-> r, cell |-> slot[t],
                    T |-> typeid_of(Top(t).E), at |-> Top(t).E, depth |-> Top(t).depth]>>)
       ELSE Step(t, ctl[t], Pop(t), None, guards[t], <<>>)

\* a variant whose read leaves the payload in the cell
catch_IexPanic_keeping(t) ==
  /\ At(t, "panic") /\ TopIs(t, "catch_unwind") /\ ctl[t].payload = "IexPanic"
  /\ \E r \in ExceptionRead(slot[t], Top(t).E) :
       LET e == <<[ev |-> "catch", payload |-> "IexPanic", depth |-> Top(t).depth],
                  [ev |-> "read", got |-> r, cell |-> slot[t], T |-> typeid_of(Top(t).E),
                   at |-> Top(t).E, depth |-> Top(t).depth]>>
       IN IF r.some
          THEN Step(t, Value(ResultV(FALSE, r.v, Top(t).E)), Pop(t), slot[t], guards[t], e)
          ELSE Step(t, Panic("unwrap on None"), Pop(t), slot[t], guards[t], e)

\* catch_unwind returned Err(payload), an IexPanic: read::<E>().unwrap()
catch_IexPanic(t) ==
  /\ At(t, "panic") /\ TopIs(t, "catch_unwind") /\ ctl[t].payload = "IexPanic"
  /\ \E r \in ExceptionRead(slot[t], Top(t).E) :
       LET e == <<[ev |-> "catch", payload |-> "IexPanic", depth |-> Top(t).depth],
                  [ev |-> "read", got |-> r, cell |-> slot[t], T |-> typeid_of(Top(t).E),
                   at |-> Top(t).E, depth |-> Top(t).depth]>>
       IN IF r.some
          THEN Step(t, Value(ResultV(FALSE, r.v, Top(t).E)), Pop(t), None, guards[t], e)
          ELSE Step(t, Panic("unwrap on None"), Pop(t), None, guards[t], e)

\* a variant that takes every payload for an IexPanic
catch_foreign_as_IexPanic(t) ==
  /\ At(t, "panic") /\ TopIs(t, "catch_unwind") /\ ctl[t].payload # "IexPanic"
  /\ \E r \in ExceptionRead(slot[t], Top(t).E) :
       LET e == <<[ev |-> "catch", payload |-> ctl[t].payload, depth |-> Top(t).depth],
                  [ev |-> "read", got |-> r, cell |-> slot[t], T |-> typeid_of(Top(t).E),
                   at |-> Top(t).E, depth |-> Top(t).depth]>>
       IN IF r.some
          THEN Step(t, Value(ResultV(FALSE, r.v, Top(t).E)), Pop(t), None, guards[t], e)
          ELSE Step(t, Panic("unwrap on None"), Pop(t), None, guards[t], e)

\* ... any other payload: resume_unwind(payload)
catch_foreign(t) ==
  /\ At(t, "panic") /\ TopIs(t, "catch_unwind") /\ ctl[t].payload # "IexPanic"
  /\ Step(t, ctl[t], Pop(t), slot[t], guards[t],
          <<[ev |-> "catch", payload |-> ctl[t].payload, depth |-> Top(t).depth],
            [ev |-> "rethrow", payload |-> ctl[t].payload]>>)

Next ==
  \/ \E t \in Threads : user_lit(t)
  \/ \E t \in Threads : user_map_err(t)
  \/ \E t \in Threads : user_get_value_or_panic(t)
  \/ \E t \in Threads : user_second(t)
  \/ \E t \in Threads : user_pair(t)
  \/ \E t \in Threads : user_unwind(t)
  \/ \E t \in Threads : invoke_body(t)
  \/ \E t \in Threads : invoke_panic(t)
  \/ \E t \in Threads : local_exit(t)
  \/ \E t \in Threads : local_drop_done(t)
  \/ \E t \in Threads : thread_exit(t)
  \/ \E t \in Threads : Result_get_value_or_panic(t)
  \/ \E t \in Threads : resume_unwind(t)
  \/ \E t \in Threads : Result_map_err(t)
  \/ \E t \in Threads : Result_map_err_return(t)
  \/ \E t \in Threads : Result_into_result(t)
  \/ \E t \in Threads : call_pure(t)
  \/ \E t \in Threads : call_nested(t)
  \/ \E t \in Threads : closure_return(t)
  \/ \E t \in Threads : swallow(t)
  \/ \E t \in Threads : drop(t)
  \/ \E t \in Threads : drop_write(t)
  \/ \E t \in Threads : forward_by_value(t)
  \/ \E t \in Threads : forward_by_ref(t)
  \/ \E t \in Threads : IexResult_get_value_or_panic(t)
  \/ \E t \in Threads : IexResult_map_err(t)
  \/ \E t \in Threads : invoke_map_err(t)
  \/ \E t \in Threads : IexResult_into_result(t)
  \/ \E t \in Threads : catch_unwind_ok(t)
  \/ \E t \in Threads : catch_IexPanic(t)
  \/ \E t \in Threads : catch_foreign(t)

Spec == Init /\ [][Next]_vars

\* the same steps, interleaved between the threads
SpecThreads == InitThreads /\ [][Next]_vars

(***************************************************************************)
(* Properties.                                                             *)
(***************************************************************************)
Exited(t) == At(t, "exit")
Returned(t, v) == Exited(t) /\ ctl[t].how = "returned" /\ ctl[t].v = v
Panicked(t, p) == Exited(t) /\ ctl[t].how = "panicked" /\ ctl[t].v = p
Unwinding(t, p) == At(t, "panic") /\ ctl[t].payload = p
Events(t, e) == {i \in 1..Len(log[t]) : log[t][i].ev = e}

\* x is a chain of #[iex] calls without locals, each forwarding its callee
\* with `?` at the callee's own error type (up to lifetimes), down to a
\* Result literal
RECURSIVE IdentityChain(_)
IdentityChain(x) ==
  /\ x.x = "lit" /\ x.o.k = "IexResult" /\ x.o.func.fn = "body"
  /\ x.o.func.drop = <<>>
  /\ typeid_of(x.o.func.try.E) = typeid_of(x.o.E)
  /\ x.o.func.try.x = "lit"
  /\ x.o.func.try.o.k = "Result" \/ IdentityChain(x.o.func.try)

RECURSIVE Origin(_)
Origin(x) == IF x.o.k = "Result" THEN x.o ELSE Origin(x.o.func.try)

FailingChain(x) == IdentityChain(x) /\ ~Origin(x).ok

\* C1: a Deferred outcome that fails with e through identity forwarding only
\* resolves to Err(e): the boundary reads from the cell exactly the payload
\* that was written at the origin, and into_result returns it unchanged.
C1_RoundTrip ==
  \A t \in Threads :
    (prog[t].top = "into_result" /\ FailingChain(prog[t].x)) =>
      /\ \A i \in Events(t, "read") :
           log[t][i].got = Some(prog[t].x.E, Origin(prog[t].x).val)
      /\ Exited(t) =>
           Returned(t, ResultV(FALSE, Origin(prog[t].x).val, prog[t].x.E))

C1_Witness ==
  \E t \in Threads :
    /\ prog[t].top = "into_result" /\ FailingChain(prog[t].x)
    /\ IdentityChain(prog[t].x.o.func.try)
    /\ Events(t, "write") # {} /\ Events(t, "read") # {}
    /\ Returned(t, ResultV(FALSE, 1, prog[t].x.E))

\* C9: into_result on the Direct outcome Ok(v) returns Ok(v), v unchanged
\* (and touches neither the cell nor the unwinder).
C9_DirectOk ==
  \A t \in Threads :
    (/\ prog[t].top = "into_result" /\ prog[t].x.x = "lit"
     /\ prog[t].x.o.k = "Result" /\ prog[t].x.o.ok
     /\ Exited(t)) =>
      /\ Returned(t, ResultV(TRUE, prog[t].x.o.val, prog[t].x.E))
      /\ log[t] = <<>> /\ slot[t] = None

C9_Witness ==
  \E t \in Threads :
    /\ prog[t].top = "into_result" /\ prog[t].x = Lit(ResultV(TRUE, 1, TyE))
    /\ Returned(t, ResultV(TRUE, 1, TyE))

(***************************************************************************)
(* "compare" programs: <of>.into_result(), then <of>.map_err(map)          *)
(* .into_result().                                                         *)
(***************************************************************************)
IsCompare(t) == prog[t].top = "compare"
\* the result of <of>.into_result(), once it has returned
HasFirst(t) == IsCompare(t) /\ Events(t, "second") # {}
SecondStart(t) == CHOOSE i \in Events(t, "second") : TRUE
First(t) == log[t][SecondStart(t)].first
After(t, e) == {i \in Events(t, e) : i > SecondStart(t)}
\* the guard the closure of <of>.map_err(map) builds: the first one built
\* once the second resolution has begun
OuterGuard(t) ==
  LET n == CHOOSE i \in After(t, "new") : \A j \in After(t, "new") : i <= j
  IN log[t][n].id

RECURSIVE Deferred(_)
Deferred(x) == IF x.x = "lit" THEN x.o.k = "IexResult" ELSE Deferred(x.of)

\* C2: if outcome.into_result() is Err(e), then for a pure f
\* outcome.map_err(f).into_result() returns Err(f(e)), for Direct and for
\* Deferred outcomes.
C2_MapErrEager ==
  \A t \in Threads :
    (HasFirst(t) /\ prog[t].x.map.inner = <<>> /\ ~First(t).ok /\ Exited(t)) =>
      Returned(t, [first |-> First(t),
                   second |-> ResultV(FALSE, Apply(prog[t].x.map, First(t).val),
                                      prog[t].x.map.to)])

C2_Witness ==
  \E t \in Threads :
    /\ IsCompare(t) /\ prog[t].x.map.inner = <<>> /\ Deferred(prog[t].x.of)
    /\ prog[t].x.map.to = TyG
    /\ Returned(t, [first |-> ResultV(FALSE, 3, prog[t].x.of.E),
                    second |-> ResultV(FALSE, 17, TyG)])

\* C6: when the conversion closure of a firing guard itself resolves a
\* Deferred outcome (clearing, writing and reading the same cell), the guard
\* has taken the originally produced payload e, and the outer boundary still
\* reads and returns the closure applied to e.
C6_NestedConversion ==
  \A t \in Threads :
    (HasFirst(t) /\ prog[t].x.map.inner # <<>> /\ Deferred(prog[t].x.of)
     /\ ~First(t).ok) =>
      /\ \A i \in After(t, "drop") :
           log[t][i].id = OuterGuard(t) =>
             log[t][i].got = Some(prog[t].x.map.from, First(t).val)
      /\ \A i \in After(t, "read") :
           log[t][i].depth = 1 =>
             log[t][i].got = Some(prog[t].x.map.to, Apply(prog[t].x.map, First(t).val))
      /\ Exited(t) =>
           Returned(t, [first |-> First(t),
                        second |-> ResultV(FALSE, Apply(prog[t].x.map, First(t).val),
                                           prog[t].x.map.to)])

\* the inner operation failed: it wrote its own payload (7) to the cell and
\* read it back while the guard was firing
C6_Witness ==
  \E t \in Threads :
    /\ HasFirst(t) /\ prog[t].x.map.inner # <<>> /\ Deferred(prog[t].x.of)
    /\ \E i \in After(t, "drop") : \E j \in After(t, "write") : \E k \in After(t, "read") :
         /\ i < j /\ j < k /\ log[t][j].val = 7 /\ log[t][k].got.v = 7
         /\ \E m \in After(t, "mapped") : k < m
    /\ Returned(t, [first |-> ResultV(FALSE, 1, prog[t].x.of.E),
                    second |-> ResultV(FALSE, 7, prog[t].x.map.to)])

\* C7: if outcome.into_result() is Ok(v), then outcome.map_err(f)
\* .into_result() returns Ok(v), f is never invoked, and every guard built
\* while resolving it ends Disarmed.
C7_MapErrOk ==
  \A t \in Threads :
    (HasFirst(t) /\ First(t).ok) =>
      /\ Events(t, "call") = {}
      /\ After(t, "drop") = {}
      /\ Exited(t) =>
           /\ Returned(t, [first |-> First(t),
                           second |-> ResultV(TRUE, First(t).val, prog[t].x.map.to)])
           /\ \A i \in After(t, "new") : guards[t][log[t][i].id] = "Disarmed"

C7_Witness ==
  \E t \in Threads :
    /\ HasFirst(t) /\ Deferred(prog[t].x.of)
    /\ Returned(t, [first |-> ResultV(TRUE, 1, prog[t].x.of.E),
                    second |-> ResultV(TRUE, 1, prog[t].x.map.to)])
    /\ \E i \in After(t, "new") :
         /\ log[t][i].via = "map_err" /\ log[t][i].map = prog[t].x.map
         /\ guards[t][log[t][i].id] = "Disarmed"

(***************************************************************************)
(* Forwarding.                                                             *)
(***************************************************************************)
IsCall(e) == e.ev = "call"
IsDrop(e) == e.ev = "drop"
Calls(t) == SelectSeq(log[t], IsCall)
Drops(t) == SelectSeq(log[t], IsDrop)
IsPrefix(a, b) == Len(a) <= Len(b) /\ a = SubSeq(b, 1, Len(a))

\* h3 (error type G) forwards h2 (F), which forwards h1 (E), which fails
\* with Err(e): no locals, no map_err
ThreeCalls(x) ==
  /\ x.x = "lit" /\ x.o.k = "IexResult" /\ x.o.func.fn = "body" /\ x.o.E = TyG
  /\ x.o.func.drop = <<>>
  /\ LET h2 == x.o.func.try
     IN /\ h2.x = "lit" /\ h2.o.k = "IexResult" /\ h2.o.func.fn = "body" /\ h2.o.E = TyF
        /\ h2.o.func.drop = <<>>
        /\ LET h1 == h2.o.func.try
           IN /\ h1.x = "lit" /\ h1.o.k = "IexResult" /\ h1.o.func.fn = "body"
              /\ typeid_of(h1.o.E) = "E" /\ h1.o.func.drop = <<>>
              /\ h1.o.func.try.x = "lit" /\ h1.o.func.try.o.k = "Result"
              /\ ~h1.o.func.try.o.ok

\* C3: across three nested calls converting E -> F (f) and F -> G (g), the
\* guard of the inner forwarding call fires first and applies f to e, the
\* guard of the outer one fires last and applies g to f(e), and the outermost
\* into_result returns Err(g(f(e))).
C3_ChainedOrder ==
  \A t \in Threads :
    (prog[t].top = "into_result" /\ ThreeCalls(prog[t].x)) =>
      LET e == Origin(prog[t].x).val
          E1 == prog[t].x.o.func.try.o.func.try.E
          f == Into(E1, TyF)
          g == Into(TyF, TyG)
      IN /\ IsPrefix(Calls(t), <<[ev |-> "call", f |-> f, arg |-> e],
                                 [ev |-> "call", f |-> g, arg |-> Apply(f, e)]>>)
         /\ Len(Drops(t)) <= 2
         /\ \A i \in 1..Len(Drops(t)) : Drops(t)[i].id = 3 - i
         /\ Exited(t) => /\ Returned(t, ResultV(FALSE, Apply(g, Apply(f, e)), TyG))
                         /\ Len(Calls(t)) = 2 /\ Len(Drops(t)) = 2

C3_Witness ==
  \E t \in Threads :
    /\ prog[t].top = "into_result" /\ ThreeCalls(prog[t].x)
    /\ Len(Calls(t)) = 2 /\ guards[t] = <<"Fired", "Fired">>
    /\ Returned(t, ResultV(FALSE, 9, TyG))

\* C4: when the outcome's error type and the function's error type have the
\* same typeid, _iex_forward takes the identity path: it builds no guard,
\* Into::into is never invoked, and a failure forwarded only this way reaches
\* the boundary exactly as written.
C4_IdentityPath ==
  \A t \in Threads :
    /\ \A i \in Events(t, "forward") :
         typeid_of(log[t][i].from) = typeid_of(log[t][i].to) =>
           /\ log[t][i].path = "identity"
           /\ (i < Len(log[t]) /\ log[t][i + 1].ev = "new") =>
                log[t][i + 1].via # "_iex_forward"
    /\ \A i \in Events(t, "new") :
         log[t][i].via = "_iex_forward" =>
           typeid_of(log[t][i].map.from) # typeid_of(log[t][i].map.to)
    /\ \A i \in Events(t, "call") :
         typeid_of(log[t][i].f.from) = typeid_of(log[t][i].f.to) =>
           log[t][i].f # Into(log[t][i].f.from, log[t][i].f.to)
    /\ (prog[t].top = "into_result" /\ IdentityChain(prog[t].x)) =>
         /\ guards[t] = <<>> /\ Events(t, "call") = {}
         /\ Exited(t) => Returned(t, [Origin(prog[t].x) EXCEPT !.E = prog[t].x.E])

\* a failure forwarded by value from E<'a> to E<'static> (the types differ,
\* the typeids do not), and by the typeid arm of the by-ref impl in a generic
\* function instantiated at equal types
C4_Witness ==
  \E t \in Threads :
    /\ prog[t].top = "into_result" /\ FailingChain(prog[t].x)
    /\ \E i \in Events(t, "forward") :
         /\ log[t][i].from = TyEa /\ log[t][i].to = TyE
         /\ log[t][i].by = "value" /\ log[t][i].path = "identity"
    /\ \E i \in Events(t, "forward") :
         /\ log[t][i].from = TyE /\ log[t][i].to = TyE
         /\ log[t][i].by = "ref" /\ log[t][i].path = "identity"
    /\ Returned(t, ResultV(FALSE, 1, TyE))

(***************************************************************************)
(* Signals and boundaries.                                                 *)
(***************************************************************************)
\* C5: when catch_unwind in into_result yields a payload that is not
\* IexPanic, into_result resumes the unwind with that payload: it does not
\* read the cell, does not return, and the thread ends by that panic.
C5_ForeignRethrown ==
  \A t \in Threads :
    /\ \A i \in Events(t, "catch") :
         log[t][i].payload # "IexPanic" =>
           /\ i < Len(log[t])
           /\ log[t][i + 1] = [ev |-> "rethrow", payload |-> log[t][i].payload]
    /\ (log[t] # <<>> /\ log[t][Len(log[t])].ev = "rethrow") =>
         \/ Unwinding(t, log[t][Len(log[t])].payload)
         \/ Panicked(t, log[t][Len(log[t])].payload)
    /\ (Events(t, "panic") # {} /\ Exited(t)) => Panicked(t, "foreign")

C5_Witness ==
  \E t \in Threads :
    /\ prog[t].top = "into_result"
    /\ \E i \in Events(t, "panic") : \E j \in Events(t, "catch") :
         i < j /\ log[t][j].payload = "foreign" /\ log[t][j].depth = 1
    /\ Events(t, "read") = {}
    /\ Panicked(t, "foreign")

\* the boundaries of the signals raised and not yet caught, latest first
RECURSIVE Pending(_)
Pending(l) ==
  IF l = <<>> THEN <<>>
  ELSE LET e == l[Len(l)]
           p == Pending(SubSeq(l, 1, Len(l) - 1))
       IN IF e.ev = "raise" THEN <<e.boundary>> \o p
          ELSE IF e.ev = "catch" /\ e.payload = "IexPanic" /\ p # <<>> THEN Tail(p)
          ELSE p

InDestructor(t) ==
  \E i \in 1..Len(stack[t]) : stack[t][i].fr \in {"drop", "local_drop"}

\* C8: a raised IexPanic signal is caught by the innermost into_result that
\* was live where it was raised, and once; until then no forwarding call
\* yields a value; with no live into_result it leaves the thread, which ends
\* by that panic.
C8_NearestBoundary ==
  \A t \in Threads :
    /\ \A i \in Events(t, "catch") :
         log[t][i].payload = "IexPanic" =>
           LET p == Pending(SubSeq(log[t], 1, i - 1))
           IN p # <<>> /\ Head(p) = log[t][i].depth
    /\ (At(t, "value") /\ Pending(log[t]) # <<>>) => InDestructor(t)
    /\ Unwinding(t, "IexPanic") => Pending(log[t]) # <<>>
    /\ Exited(t) =>
         /\ Pending(log[t]) \in {<<>>, <<0>>}
         /\ Pending(log[t]) = <<0>> <=> Panicked(t, "IexPanic")

\* a signal raised under two live boundaries is caught by the inner one
C8_Witness ==
  \E t \in Threads :
    /\ \E i \in Events(t, "raise") : \E j \in Events(t, "catch") :
         /\ i < j /\ log[t][i].boundary > 1 /\ log[t][j].depth = log[t][i].boundary
         /\ log[t][j].payload = "IexPanic"
    /\ Exited(t) /\ Pending(log[t]) = <<>>

\* the signal raised under no boundary ends the thread
C8_Escape ==
  \E t \in Threads :
    /\ prog[t].top = "get_value_or_panic"
    /\ Pending(log[t]) = <<0>> /\ Panicked(t, "IexPanic")

\* C10: between the write of a payload and its read at the catching
\* boundary nothing clears or overwrites the cell: no into_result finds a
\* payload in the cell it clears, and the boundary's read always yields one.
C10_SlotKept ==
  \A t \in Threads :
    /\ \A i \in Events(t, "clear") : ~log[t][i].cell.some
    /\ \A i \in Events(t, "read") : log[t][i].got.some

(***************************************************************************)
(* Guards.                                                                 *)
(***************************************************************************)
\* the conversion function guard id was built with
MapOf(t, id) == log[t][CHOOSE i \in Events(t, "new") : log[t][i].id = id].map
\* the events that fire guard id, and the invocations that follow them
Firings(t, id) == {i \in Events(t, "drop") : log[t][i].id = id}
Invoked(t, i) ==
  /\ i < Len(log[t])
  /\ log[t][i + 1] = [ev |-> "call", f |-> MapOf(t, log[t][i].id), arg |-> log[t][i].got.v]

\* C11: every guard an IexPanic signal unwinds through fires once, finds the
\* payload in the cell and invokes its conversion function on it; no guard
\* invokes its function twice.
C11_FiresOnce ==
  \A t \in Threads :
    /\ \A i \in Events(t, "drop") :
         log[t][i].payload = "IexPanic" =>
           /\ log[t][i].got.some
           /\ i < Len(log[t]) => Invoked(t, i)
           /\ Firings(t, log[t][i].id) = {i}
    /\ \A id \in DOMAIN guards[t] :
         Cardinality({j \in Events(t, "call") :
                        j > 1 /\ log[t][j - 1].ev = "drop" /\ log[t][j - 1].id = id}) <= 1

\* the transitions guard id has made, and whether it is still in scope
Transitions(t, id) ==
  {i \in Events(t, "swallow") \cup Events(t, "drop") : log[t][i].id = id}
InScope(t, id) ==
  \E i \in 1..Len(stack[t]) :
    stack[t][i].fr = "ExceptionMapper" /\ stack[t][i].id = id

\* C12: a guard is built Armed and makes one transition, to Disarmed by
\* swallow or to Fired by drop, when it leaves its scope; it makes no other.
C12_GuardStates ==
  \A t \in Threads : \A id \in DOMAIN guards[t] :
    /\ Cardinality({i \in Events(t, "new") : log[t][i].id = id}) = 1
    /\ Cardinality(Transitions(t, id)) <= 1
    /\ \A i \in Transitions(t, id) : \E n \in Events(t, "new") :
         log[t][n].id = id /\ n < i
    /\ guards[t][id] = "Armed" <=> Transitions(t, id) = {}
    /\ guards[t][id] = "Armed" <=> InScope(t, id)
    /\ guards[t][id] = "Disarmed" <=> \E i \in Transitions(t, id) : log[t][i].ev = "swallow"
    /\ guards[t][id] = "Fired" <=> \E i \in Transitions(t, id) : log[t][i].ev = "drop"

\* the inner of two guards has fired, the outer one is still armed and in
\* the way of the unwind
C12_Witness ==
  \E t \in Threads :
    /\ Unwinding(t, "IexPanic")
    /\ guards[t] = <<"Armed", "Fired">>
    /\ InScope(t, 1) /\ ~InScope(t, 2)

(***************************************************************************)
(* Order of the steps of one propagation.                                  *)
(***************************************************************************)
\* C13: the payload is written to the cell before the IexPanic signal is
\* raised (every raise directly follows its write, and the thread is about
\* to raise only with the payload stored), and a boundary reads the cell only
\* after it has caught an IexPanic signal (every read directly follows the
\* catch of IexPanic by the same boundary).
C13_WriteRaiseCatchRead ==
  \A t \in Threads :
    /\ \A i \in Events(t, "raise") :
         i > 1 /\ log[t][i - 1].ev = "write"
    /\ \A i \in Events(t, "write") :
         i = Len(log[t]) \/ log[t][i + 1].ev = "raise"
    /\ At(t, "resume_unwind") =>
         /\ slot[t].some
         /\ log[t] # <<>> /\ log[t][Len(log[t])].ev = "write"
         /\ slot[t].v = log[t][Len(log[t])].val
    /\ \A i \in Events(t, "read") :
         /\ i > 1 /\ log[t][i - 1].ev = "catch"
         /\ log[t][i - 1].payload = "IexPanic"
         /\ log[t][i - 1].depth = log[t][i].depth
         /\ \E r \in Events(t, "raise") : r < i - 1

\* a propagation through a converting forward, from write to read
C13_Witness ==
  \E t \in Threads :
    \E w \in Events(t, "write") : \E d \in Events(t, "drop") : \E r \in Events(t, "read") :
      /\ log[t][w + 1].ev = "raise" /\ w + 1 < d /\ d < r
      /\ log[t][r - 1].ev = "catch"
      /\ log[t][r].got.some /\ log[t][r].got.v = 2 * log[t][w].val + 1

(***************************************************************************)
(* The cell at a boundary.                                                 *)
(***************************************************************************)
IsStore(e) == e.ev \in {"write", "mapped"}
\* the greatest index of a set of indices, 0 if it is empty
Latest(S) == IF S = {} THEN 0 ELSE CHOOSE j \in S : \A m \in S : m <= j
\* the latest store before event k
LatestStore(t, k) == Latest({j \in 1..(k - 1) : IsStore(log[t][j])})
\* the clear that opened the boundary of read k
Opening(t, k) ==
  Latest({j \in 1..(k - 1) : log[t][j].ev = "clear" /\ log[t][j].depth = log[t][k].depth})

\* C14: into_result on a Deferred outcome has emptied the cell when it
\* starts forcing (the cell is empty from the clear until the forced
\* computation touches it); a catch of IexPanic is followed by one read,
\* which leaves the cell empty; the payload read was stored after the
\* boundary's clear, so a payload found in the cell by the clear is never
\* the result.
C14_ClearForceRead ==
  \A t \in Threads :
    /\ (log[t] # <<>> /\ log[t][Len(log[t])].ev = "clear") =>
         slot[t] = None
    /\ \A i \in Events(t, "catch") :
         log[t][i].payload = "IexPanic" =>
           /\ i < Len(log[t]) /\ log[t][i + 1].ev = "read"
           /\ i + 1 < Len(log[t]) => log[t][i + 2].ev # "read"
    /\ (log[t] # <<>> /\ log[t][Len(log[t])].ev = "read") => slot[t] = None
    /\ \A k \in Events(t, "read") :
         /\ Opening(t, k) > 0
         /\ log[t][k].got.some =>
              LET j == LatestStore(t, k)
              IN j > Opening(t, k) /\ log[t][j].val = log[t][k].got.v

\* a boundary opened on a cell that held the payload 1, whose own
\* computation failed with 7: it returned 7
C14_Witness ==
  \E t \in Threads : \E k \in Events(t, "read") :
    /\ log[t][Opening(t, k)].cell = Some(TyE, 1)
    /\ log[t][k].got = Some(TyF, 7)
    /\ slot[t] = None

\* C15: every read of the cell, by a firing guard at its source type or by
\* a catching into_result at its error type, finds the cell empty or holding
\* a payload whose last store was made at exactly the type of the read.
C15_TypedReads ==
  \A t \in Threads :
    \A k \in Events(t, "drop") \cup Events(t, "read") :
      log[t][k].cell.some =>
        /\ LatestStore(t, k) > 0
        /\ log[t][LatestStore(t, k)].at = log[t][k].at

\* an IexPanic signal is in flight: its payload is stored and it is being
\* raised, or it has been raised and not yet caught
InFlight(t) == At(t, "resume_unwind") \/ Pending(log[t]) # <<>>

\* C17: the cell is empty before the first protocol operation, holds a
\* payload only while an IexPanic signal is in flight, and is empty when the
\* thread's outcome has been resolved and returned.
C17_EmptyAtRest ==
  \A t \in Threads :
    /\ log[t] = <<>> => slot[t] = None
    /\ slot[t].some => InFlight(t)
    /\ (Exited(t) /\ ctl[t].how = "returned") => slot[t] = None

\* <of>.into_result() on a Deferred outcome has just returned Err(1), after
\* a payload went through the cell
C17_Witness ==
  \E t \in Threads :
    /\ HasFirst(t) /\ Deferred(prog[t].x.of) /\ First(t) = ResultV(FALSE, 1, prog[t].x.of.E)
    /\ log[t][Len(log[t])].ev = "second"
    /\ Events(t, "write") # {} /\ ~InFlight(t) /\ slot[t] = None

\* C18: a guard dropped by the unwind of a payload that is not IexPanic finds
\* the cell empty; its closure is dropped uncalled, the cell is empty
\* afterwards, and the unwind goes on with the same payload up to the end of
\* the thread.
C18_ForeignThroughGuard ==
  \A t \in Threads :
    \A i \in Events(t, "drop") :
      log[t][i].payload # "IexPanic" =>
        /\ log[t][i].cell = None /\ log[t][i].got = None
        /\ guards[t][log[t][i].id] = "Fired"
        /\ i < Len(log[t]) => log[t][i + 1].ev # "call"
        /\ i = Len(log[t]) =>
             /\ slot[t] = None
             /\ Unwinding(t, log[t][i].payload) \/ Panicked(t, log[t][i].payload)
        /\ \A j \in Events(t, "call") : i < j => log[t][j].f # MapOf(t, log[t][i].id)
        /\ Exited(t) => Panicked(t, log[t][i].payload)

\* a panic in an #[iex] function went through the guard of a map_err and
\* the boundary, and ended the thread
C18_Witness ==
  \E t \in Threads :
    /\ prog[t].top = "into_result"
    /\ \E p \in Events(t, "panic") : \E i \in Events(t, "drop") : \E c \in Events(t, "catch") :
         /\ p < i /\ i < c /\ log[t][i].payload = "foreign"
         /\ log[t][c].payload = "foreign"
    /\ Events(t, "call") = {} /\ slot[t] = None
    /\ Panicked(t, "foreign")

(***************************************************************************)
(* Threads.                                                                *)
(***************************************************************************)
IsAccess(e) == e.ev \in {"write", "mapped", "clear", "drop", "read"}
\* what thread t's own accesses have left in its cell
OwnCell(t) ==
  LET j == Latest({i \in 1..Len(log[t]) : IsAccess(log[t][i])})
  IN IF j > 0 /\ IsStore(log[t][j]) THEN [some |-> TRUE, v |-> log[t][j].val]
     ELSE [some |-> FALSE, v |-> 0]

\* how thread t ends when it runs its program alone
Alone(t) ==
  LET x == prog[t].x
  IN IF prog[t].top = "get_value_or_panic" THEN Exit("returned", t)
     ELSE IF prog[t].top = "into_result"
          THEN Exit("returned",
                    ResultV(FALSE, Apply(x.map, Apply(Into(TyE, TyF), t)), x.map.to))
     ELSE IF x.of.o.k = "Result"
          THEN Exit("returned",
                    [first |-> ResultV(FALSE, t, TyE),
                     second |-> ResultV(FALSE, Apply(x.map, t), x.map.to)])
     ELSE Exit("panicked", "foreign")

\* C16: with several threads interleaved, the cell of a thread holds what
\* that thread's own writes, clears, guard conversions and reads have left
\* in it, every read yields the payload the reading thread stored last, and
\* every thread ends as it does when it runs alone: no step of one thread
\* changes the cell of another.
C16_PerThread ==
  \A t \in Threads :
    /\ slot[t].some = OwnCell(t).some
    /\ slot[t].some => slot[t].v = OwnCell(t).v
    /\ \A k \in Events(t, "read") \cup Events(t, "drop") :
         /\ log[t][k].got = log[t][k].cell
         /\ log[t][k].got.some =>
              log[t][k].got.v = log[t][LatestStore(t, k)].val
    /\ Exited(t) => ctl[t] = Alone(t)

\* two threads hold different payloads in their cells at the same time, and
\* each goes on to return its own
C16_Witness ==
  \E t \in Threads : \E u \in Threads :
    /\ t # u
    /\ slot[t].some /\ slot[t].v = t /\ Unwinding(t, "IexPanic")
    /\ prog[u].top = "into_result" /\ ctl[u] = Alone(u)
    /\ \E k \in Events(u, "read") : log[u][k].got.v = ctl[u].v.val

====
